---- MODULE Spec2Model ----
(***************************************************************************)
(* Model of scripts/exploratory_data_analyzer.py (class EDAAnalyzer).      *)
(*                                                                         *)
(* A DataFrame is a function from the names of its columns to columns of   *)
(* equal length; a cell is <<v>> or the missing value <<>>.  Real numbers  *)
(* are kept exactly as scaled integers: quartiles in quarters, outlier     *)
(* bounds in eighths, qcut edges in tenths, skewness in thousandths.       *)
(* The plotting library's state is the list of patches of the current      *)
(* axes (what plt.gca() returns).                                          *)
(***************************************************************************)
EXTENDS Integers, Sequences, FiniteSets, TLC

\* ---------------------------------------------------------------- bounds
NRows == 4

MaxCalls == 1

MaxChanges == 1

\* ------------------------------------------------------- cells and columns
NaN == <<>>

isna(cell) == cell = NaN

Val(cell) == cell[1]

\* the order of the columns of the transaction table
ColumnOrder ==
    << "CurrencyCode", "CountryCode", "ProviderId", "ProductCategory",
       "ChannelId", "Amount", "Value", "PricingStrategy", "FraudResult" >>

NumericNames == {"CountryCode", "Amount", "Value", "PricingStrategy", "FraudResult"}

Range(s) == {s[i] : i \in DOMAIN s}

\* F(v), the value v being computed once (a local variable of the code)
With(v, F(_)) == CHOOSE r \in {F(x) : x \in {v}} : TRUE

\* the sequence s put in ascending order of Lt, equal elements keeping their
\* order (numpy sorts arrays of at most 16 elements by insertion)
StableSort(s, Lt(_, _)) ==
    With(SortSeq([i \in DOMAIN s |-> << i, s[i] >>],
                 LAMBDA p, q : Lt(p[2], q[2]) \/ (~Lt(q[2], p[2]) /\ p[1] < q[1])),
         LAMBDA srt : [k \in DOMAIN srt |-> srt[k][2]])

RECURSIVE SumTo(_, _)
SumTo(s, n) == IF n = 0 THEN 0 ELSE s[n] + SumTo(s, n - 1)

Sum(s) == With(s, LAMBDA v : SumTo(v, Len(v)))

Abs(x) == IF x < 0 THEN -x ELSE x

RECURSIVE Gcd(_, _)
Gcd(a, b) == IF b = 0 THEN a ELSE With(a % b, LAMBDA r : Gcd(b, r))

\* the common divisor of the absolute values of d[1..i]
RECURSIVE GcdAll(_, _)
GcdAll(d, i) ==
    IF i = 0 THEN 0 ELSE With(GcdAll(d, i - 1), LAMBDA g : Gcd(Abs(d[i]), g))

\* DataFrame.columns, DataFrame.shape[0], DataFrame._get_numeric_data().columns
columns(d) == SelectSeq(ColumnOrder, LAMBDA c : c \in DOMAIN d)

nrows(d) == Len(d[CHOOSE c \in DOMAIN d : TRUE])

numeric_columns(d) == SelectSeq(ColumnOrder, LAMBDA c : c \in DOMAIN d /\ c \in NumericNames)

\* the non-missing values of a column, in row order
dropna(col) == SelectSeq(col, LAMBDA cell : ~isna(cell))

values(col) == With(dropna(col), LAMBDA kept : [i \in DOMAIN kept |-> Val(kept[i])])

sorted(vs) == SortSeq(vs, LAMBDA a, b : a < b)

\* Series.quantile(k/m) by linear interpolation, as m times the quantile;
\* NaN for a column with no value
quantile(col, k, m) ==
    With(sorted(values(col)), LAMBDA s :
        LET n   == Len(s)
            pos == (n - 1) * k
            lo  == pos \div m
            r   == pos % m
        IN  IF n = 0 THEN NaN
            ELSE IF r = 0 THEN << m * s[lo + 1] >>
            ELSE << m * s[lo + 1] + r * (s[lo + 2] - s[lo + 1]) >>)

\* ------------------------------------------------ exact rational helpers
\* the sign of a/b - c/d for a, c >= 0 and b, d > 0, by continued fractions
\* (no product is formed, so no intermediate value leaves 32 bits)
RECURSIVE RatCmp(_, _, _, _)
RatCmp(a, b, c, d) ==
    With(<< a \div b, a % b, c \div d, c % d >>, LAMBDA t :
        IF t[1] # t[3] THEN (IF t[1] < t[3] THEN -1 ELSE 1)
        ELSE IF t[2] = 0 /\ t[4] = 0 THEN 0
        ELSE IF t[2] = 0 THEN -1
        ELSE IF t[4] = 0 THEN 1
        ELSE -RatCmp(b, t[2], d, t[4]))

\* the largest m in lo..hi with (m/1000)^2 <= num/den
RECURSIVE FloorMilli(_, _, _, _)
FloorMilli(num, den, lo, hi) ==
    IF lo = hi THEN lo
    ELSE With((lo + hi + 1) \div 2, LAMBDA mid :
             IF RatCmp(mid * mid, 1000000, num, den) <= 0
             THEN FloorMilli(num, den, mid, hi)
             ELSE FloorMilli(num, den, lo, mid - 1))

\* ------------------------------------------------------------ statistics
\* n times the deviation of each value from the mean, divided by their
\* common divisor (skewness and correlation do not depend on the scale)
deviations(xs) ==
    With(xs, LAMBDA vs :
    With(Sum(vs), LAMBDA total :
    With([i \in DOMAIN vs |-> Len(vs) * vs[i] - total], LAMBDA d :
    With(GcdAll(d, Len(d)), LAMBDA g :
        IF g = 0 THEN d ELSE [i \in DOMAIN d |-> d[i] \div g]))))

\* Series.skew(): NaN below 3 values, 0 for a constant column, otherwise
\* n*sqrt(n-1)/(n-2) * m3/m2^1.5, kept exactly as its sign and its square
skew(col) ==
    With(values(col), LAMBDA vs :
        IF Len(vs) < 3 THEN NaN
        ELSE
    With(deviations(vs), LAMBDA e :
    With(Sum([i \in DOMAIN e |-> e[i] * e[i]]), LAMBDA m2 :
    With(Sum([i \in DOMAIN e |-> e[i] * e[i] * e[i]]), LAMBDA m3 :
        LET n == Len(vs)
        IN  IF m2 = 0 \/ m3 = 0 THEN << [sign |-> 0, num |-> 0, den |-> 1] >>
            ELSE << [sign |-> IF m3 < 0 THEN -1 ELSE 1,
                     num  |-> n * n * (n - 1) * m3 * m3,
                     den  |-> (n - 2) * (n - 2) * m2 * m2 * m2] >>))))

\* a < b for two skewness values; NaN sorts last (na_position='last')
skew_lt(a, b) ==
    IF isna(a) THEN FALSE
    ELSE IF isna(b) THEN TRUE
    ELSE LET x == Val(a)
             y == Val(b)
         IN  IF x.sign # y.sign THEN x.sign < y.sign
             ELSE IF x.sign = 0 THEN FALSE
             ELSE IF x.sign > 0 THEN RatCmp(x.num, x.den, y.num, y.den) < 0
             ELSE RatCmp(x.num, x.den, y.num, y.den) > 0

\* Series.round(decimals=3) of a skewness value, in thousandths (ties to even)
round3(a) ==
    IF isna(a) THEN NaN
    ELSE
    With(Val(a), LAMBDA x :
    With(FloorMilli(x.num, x.den, 0, 1000 * (NRows + 1)), LAMBDA m :
    With(RatCmp((2 * m + 1) * (2 * m + 1), 4000000, x.num, x.den), LAMBDA half :
        << x.sign * (IF half < 0 THEN m + 1
                     ELSE IF half > 0 THEN m
                     ELSE IF m % 2 = 0 THEN m ELSE m + 1) >>)))

\* DataFrame.skew(numeric_only=True).sort_values().round(decimals=3):
\* a sequence of <<column, rounded skewness>>
skewness_data(d) ==
    With(numeric_columns(d), LAMBDA nc :
    With([i \in DOMAIN nc |-> << nc[i], skew(d[nc[i]]) >>], LAMBDA raw :
    With(StableSort(raw, LAMBDA a, b : skew_lt(a[2], b[2])), LAMBDA srt :
        [i \in DOMAIN srt |-> << srt[i][1], round3(srt[i][2]) >>])))

\* DataFrame.isna().mean() * 100, each percentage as <<numerator, denominator>>
isna_mean_100(d) ==
    [c \in DOMAIN d |->
        << 100 * Sum([i \in DOMAIN d[c] |-> IF isna(d[c][i]) THEN 1 ELSE 0]),
           Len(d[c]) >>]

\* missing_report without the filter on the percentage
missing_report_unfiltered(d) == isna_mean_100(d)

\* missing[missing > 0]  (a comparison with NaN, the mean of no rows, is false)
missing_report(d) ==
    With(isna_mean_100(d), LAMBDA missing :
        [c \in {k \in DOMAIN missing : missing[k][2] > 0 /\ missing[k][1] > 0} |->
            missing[c]])

\* ------------------------------------------------------------ count_outliers
\* upper_bound = quartile_three + 1.5 * iqr, in eighths; NaN for an empty column
upper_bound(col) ==
    With(quantile(col, 1, 4), LAMBDA quartile_one :
    With(quantile(col, 3, 4), LAMBDA quartile_three :
        IF isna(quartile_one) THEN NaN
        ELSE << 2 * Val(quartile_three) + 3 * (Val(quartile_three) - Val(quartile_one)) >>))

\* lower_bound = quartile_one - 1.5 * iqr, in eighths
lower_bound(col) ==
    With(quantile(col, 1, 4), LAMBDA quartile_one :
    With(quantile(col, 3, 4), LAMBDA quartile_three :
        IF isna(quartile_one) THEN NaN
        ELSE << 2 * Val(quartile_one) - 3 * (Val(quartile_three) - Val(quartile_one)) >>))

\* is_outlier with the bounds themselves counted as outliers
is_outlier_inclusive(cell, lower, upper) ==
    /\ ~isna(cell)
    /\ ~isna(lower)
    /\ (8 * Val(cell) <= Val(lower) \/ 8 * Val(cell) >= Val(upper))

\* the mask (data[column] < lower) | (data[column] > upper) of one row:
\* a comparison with a missing value or a missing bound is false
is_outlier(cell, lower, upper) ==
    /\ ~isna(cell)
    /\ ~isna(lower)
    /\ (8 * Val(cell) < Val(lower) \/ 8 * Val(cell) > Val(upper))

\* column_outliers.shape[0]
outlier_count(col) ==
    With(lower_bound(col), LAMBDA lower :
    With(upper_bound(col), LAMBDA upper :
        Len(SelectSeq(col, LAMBDA cell : is_outlier(cell, lower, upper)))))

\* the frame {"Columns", "Num. of Outliers"}, one row per numeric column,
\* after sort_values(by='Num. of Outliers'): a sequence of <<column, count>>
outliers_frame(d) ==
    With(numeric_columns(d), LAMBDA nc :
    With([i \in DOMAIN nc |-> << nc[i], outlier_count(d[nc[i]]) >>], LAMBDA rows :
        StableSort(rows, LAMBDA a, b : a[2] < b[2])))

\* ------------------------------------------------------------ fraud_analysis
num_bins == 10

\* the Amount cells of groupby('FraudResult').get_group(1), sorted by Amount
\* (missing amounts last)
fraud_amounts(d) ==
    With(SelectSeq([i \in DOMAIN d["FraudResult"] |-> i],
                   LAMBDA i : d["FraudResult"][i] = <<1>>), LAMBDA rows :
    With([k \in DOMAIN rows |-> d["Amount"][rows[k]]], LAMBDA amt :
        StableSort(amt, LAMBDA a, b : ~isna(a) /\ (isna(b) \/ Val(a) < Val(b)))))

\* algos.unique on the non-decreasing sequence of quantiles
unique(s) ==
    With(s, LAMBDA v :
        SelectSeq([i \in DOMAIN v |-> << i, v[i] >>],
                  LAMBDA p : p[1] = 1 \/ v[p[1] - 1] # p[2]))

\* the edges pd.qcut(q=num_bins, duplicates='drop') returns, in tenths
bin_edges(x) ==
    With(x, LAMBDA amounts :
    With(unique([k \in 1..(num_bins + 1) |-> quantile(amounts, k - 1, num_bins)]),
         LAMBDA uniq : [i \in DOMAIN uniq |-> uniq[i][2]]))

\* the bin of one amount (0: no bin): searchsorted(side='left'), the lowest
\* edge included, values outside the edges and missing values left out
bin_of(cell, edges) ==
    With(IF isna(cell) \/ isna(edges[1]) THEN 0
         ELSE IF 10 * Val(cell) = Val(edges[1]) THEN 1
         ELSE Cardinality({i \in DOMAIN edges : Val(edges[i]) < 10 * Val(cell)}),
         LAMBDA ids : IF ids = Len(edges) THEN 0 ELSE ids)

\* int() of an edge: truncation towards zero
int(edge) == IF Val(edge) >= 0 THEN Val(edge) \div 10 ELSE -((-Val(edge)) \div 10)

\* the pair of numbers written in the label "{lo} UGX - {hi} UGX" of each bin
bin_labels(edges) == [i \in 1..(Len(edges) - 1) |-> << int(edges[i]), int(edges[i + 1]) >>]

\* quantile_bins_fraud.value_counts().sort_index(): rows per bin, in bin order
bin_counts(x, edges) ==
    With(x, LAMBDA amounts :
    With(edges, LAMBDA es :
    With([i \in DOMAIN amounts |-> bin_of(amounts[i], es)], LAMBDA bin :
        [b \in 1..(Len(es) - 1) |-> Cardinality({i \in DOMAIN bin : bin[i] = b})])))

\* ---------------------------------------------------- categorical_distribution
columns_of_interest == << "CurrencyCode", "ProviderId", "ProductCategory", "ChannelId" >>

\* groupby(by=column).size().sort_values(): a sequence of <<category, count>>;
\* groupby sorts the keys and leaves missing keys out
grouping_counts(col) ==
    With(sorted(values(col)), LAMBDA vs :
    With(SelectSeq([i \in DOMAIN vs |-> << i, vs[i] >>],
                   LAMBDA p : p[1] = 1 \/ vs[p[1] - 1] # p[2]), LAMBDA ks :
    With([k \in DOMAIN ks |->
            << ks[k][2], Cardinality({i \in DOMAIN vs : vs[i] = ks[k][2]}) >>], LAMBDA size :
        StableSort(size, LAMBDA a, b : a[2] < b[2]))))

\* math.ceil(n ** 0.5)
ceil_sqrt(n) == CHOOSE c \in 0..n : c * c >= n /\ (c = 0 \/ (c - 1) * (c - 1) < n)

\* math.ceil(n / m)
ceil_div(n, m) == (n + m - 1) \div m

\* --------------------------------------- describe, corr, histogram, box plot
\* one column of DataFrame.describe(): mean as <<sum, count>>, the square of
\* std as <<numerator, denominator>>, quartiles in quarters
describe(col) ==
    With(values(col), LAMBDA vs :
    With(sorted(vs), LAMBDA s :
    With(Sum(vs), LAMBDA total :
        LET n == Len(vs)
        IN  [count |-> n,
             mean  |-> IF n = 0 THEN NaN ELSE << total, n >>,
             std2  |-> IF n < 2 THEN NaN
                       ELSE << Sum([i \in 1..n |-> (n * vs[i] - total) * (n * vs[i] - total)]),
                               n * n * (n - 1) >>,
             min   |-> IF n = 0 THEN NaN ELSE << s[1] >>,
             q25   |-> quantile(col, 1, 4),
             q50   |-> quantile(col, 2, 4),
             q75   |-> quantile(col, 3, 4),
             max   |-> IF n = 0 THEN NaN ELSE << s[n] >>])))

\* Pearson correlation of two columns over the rows where both have a value,
\* as its sign and its square; NaN when one of them is constant there
corr(colx, coly) ==
    With(SelectSeq([i \in DOMAIN colx |-> i],
                   LAMBDA i : ~isna(colx[i]) /\ ~isna(coly[i])), LAMBDA rows :
    With(deviations([k \in DOMAIN rows |-> Val(colx[rows[k]])]), LAMBDA ex :
    With(deviations([k \in DOMAIN rows |-> Val(coly[rows[k]])]), LAMBDA ey :
    With(Sum([k \in DOMAIN rows |-> ex[k] * ey[k]]), LAMBDA sxy :
    With(Sum([k \in DOMAIN rows |-> ex[k] * ex[k]]), LAMBDA sxx :
    With(Sum([k \in DOMAIN rows |-> ey[k] * ey[k]]), LAMBDA syy :
        IF sxx = 0 \/ syy = 0 THEN NaN
        ELSE
    With(Gcd(sxy * sxy, sxx * syy), LAMBDA g :
        << [sign |-> IF sxy < 0 THEN -1 ELSE IF sxy = 0 THEN 0 ELSE 1,
            num  |-> (sxy * sxy) \div g,
            den  |-> (sxx * syy) \div g] >>)))))))

\* DataFrame._get_numeric_data().corr()
correlation_matrix(d) ==
    With(Range(numeric_columns(d)), LAMBDA nc :
        [a \in nc |-> [b \in nc |-> corr(d[a], d[b])]])

hist_bins == 15

\* the bin of the value x in a histogram of hist_bins equal bins from lo to hi
\* (half a unit on each side of a single value), the last bin closed
hist_bin(x, lo, hi) ==
    IF lo = hi THEN (hist_bins \div 2) + 1
    ELSE IF x = hi THEN hist_bins
    ELSE ((x - lo) * hist_bins) \div (hi - lo) + 1

\* the heights of the bars sns.histplot(bins=15) draws for one column;
\* nothing for a column with no value
hist_heights(col) ==
    With(sorted(values(col)), LAMBDA vs :
        IF Len(vs) = 0 THEN <<>>
        ELSE
    With([i \in DOMAIN vs |-> hist_bin(vs[i], vs[1], vs[Len(vs)])], LAMBDA bin :
        [b \in 1..hist_bins |-> Cardinality({i \in DOMAIN bin : bin[i] = b})]))

\* ------------------------------------------------------------ the axes
\* the patches an operation adds to an axes: their kind, position and height
patches(kind, heights) ==
    With(heights, LAMBDA hs :
        [i \in DOMAIN hs |-> [kind |-> kind, x |-> << kind, i >>, h |-> hs[i]]])

\* for idx, patch in enumerate(ax.patches): ax.text(x, y, s=value_of[idx]).
\* A box (PathPatch) has no get_x(): AttributeError; a patch beyond the
\* values: IndexError.  The texts written before the error stay.
annotate(ax_patches, value_of) ==
    With(ax_patches, LAMBDA ps :
    With(value_of, LAMBDA vals :
    With({i \in DOMAIN ps : ps[i].kind = "box" \/ i > Len(vals)}, LAMBDA bad :
    With(IF bad = {} THEN Len(ps) + 1 ELSE CHOOSE i \in bad : \A j \in bad : i <= j,
         LAMBDA stop :
        [error |-> IF bad = {} THEN "ok"
                   ELSE IF ps[stop].kind = "box" THEN "AttributeError"
                   ELSE "IndexError",
         texts |-> [i \in 1..(stop - 1) |->
                      [x |-> ps[i].x, y |-> ps[i].h, s |-> vals[i]]]]))))

\* ------------------------------------------- what each operation produces
\* [outcome: "ok" or the uncaught error, result: what was computed or printed,
\*  bars: the patches the call drew, texts: the annotations it wrote,
\*  ax: the patches of the current axes after the call]
Produced(outcome, result, bars, texts, ax) ==
    [outcome |-> outcome, result |-> result, bars |-> bars, texts |-> texts, ax |-> ax]

basic_overview_out(d, ax) ==
    Produced("ok",
             [shape  |-> << nrows(d), Len(columns(d)) >>,
              dtypes |-> [c \in DOMAIN d |-> IF c \in NumericNames THEN "number" ELSE "object"]],
             <<>>, <<>>, ax)

summary_statistics_out(d, ax) ==
    Produced("ok", [c \in Range(numeric_columns(d)) |-> describe(d[c])], <<>>, <<>>, ax)

missing_values_out(d, ax) ==
    Produced("ok", missing_report(d), <<>>, <<>>, ax)

\* one subplot of numerical_distribution: the histogram of a column and the
\* two vertical lines at its median and its mean
distribution_plot(d, column) ==
    [column |-> column,
     median |-> quantile(d[column], 1, 2),
     mean   |-> describe(d[column]).mean,
     hist   |-> patches("hist", hist_heights(d[column]))]

\* closed: whether plt.show() destroyed the figure (a blocking or inline
\* backend) or left it current (a non-interactive backend)
numerical_distribution_out(d, ax, closed) ==
    With(numeric_columns(d), LAMBDA numerical_cols :
    With(ceil_sqrt(Len(numerical_cols)), LAMBDA num_cols :
        IF num_cols = 0
        THEN Produced("ZeroDivisionError",
                      [num_rows |-> 0, num_cols |-> 0, kept |-> {}], <<>>, <<>>, ax)
        ELSE
    With(ceil_div(Len(numerical_cols), num_cols), LAMBDA num_rows :
        IF num_rows * num_cols = 1
        THEN Produced("AttributeError",
                      [num_rows |-> num_rows, num_cols |-> num_cols, kept |-> {1}],
                      <<>>, <<>>, <<>>)
        ELSE
    With([i \in DOMAIN numerical_cols |-> distribution_plot(d, numerical_cols[i])],
         LAMBDA plots :
        \* idx is the last index of the plot loop; the cells after it are deleted
        LET idx == Len(numerical_cols) - 1
        IN  Produced("ok",
                     [num_rows |-> num_rows, num_cols |-> num_cols,
                      kept |-> {j \in 1..(num_rows * num_cols) : j - 1 < idx + 1}],
                     plots, <<>>,
                     IF closed THEN <<>> ELSE plots[Len(plots)].hist)))))

describe_skewness_out(d, ax) ==
    With(skewness_data(d), LAMBDA skewness :
    With(SelectSeq(skewness, LAMBDA p : ~isna(p[2])), LAMBDA shown :
    With(patches("bar", [i \in DOMAIN shown |-> shown[i][2]]), LAMBDA bars :
    With(annotate(ax \o bars, [i \in DOMAIN skewness |-> skewness[i][2]]), LAMBDA notes :
        Produced(notes.error, skewness, bars, notes.texts, ax \o bars)))))

\* one chart of categorical_distribution, drawn on its own fresh axes
category_chart(col) ==
    With(grouping_counts(col), LAMBDA counts :
    With(patches("bar", [i \in DOMAIN counts |-> counts[i][2]]), LAMBDA bars :
        [counts |-> counts, bars |-> bars,
         texts |-> annotate(bars, [i \in DOMAIN counts |-> counts[i][2]]).texts]))

categorical_distribution_out(d, ax) ==
    LET ncharts     == Len(columns_of_interest)
        num_columns == ceil_sqrt(ncharts)
        num_rows    == ceil_div(ncharts, num_columns)
    IN
    With({j \in 1..ncharts : columns_of_interest[j] \notin DOMAIN d}, LAMBDA absent :
    \* the loop stops with a KeyError at the first column the table lacks
    With(IF absent = {} THEN ncharts + 1 ELSE CHOOSE j \in absent : \A k \in absent : j <= k,
         LAMBDA stop :
    With([j \in 1..(stop - 1) |-> category_chart(d[columns_of_interest[j]])], LAMBDA chart :
        IF absent # {}
        THEN Produced("KeyError",
                      [j \in 1..(stop - 1) |-> chart[j].counts],
                      [j \in 1..(num_columns * num_rows) |->
                          IF j < stop THEN chart[j].bars ELSE <<>>],
                      [j \in 1..(stop - 1) |-> chart[j].texts],
                      <<>>)
        ELSE
        \* the value the name idx holds after the loops: the inner loop over the
        \* patches of the last chart rebinds the outer loop's idx
        LET idx     == IF Len(chart[ncharts].bars) = 0 THEN ncharts - 1
                       ELSE Len(chart[ncharts].bars) - 1
            kept    == {j \in 1..ncharts : j - 1 < idx + 1}
            current == CHOOSE j \in kept : \A k \in kept : k <= j
        IN  Produced("ok",
                     [j \in 1..ncharts |-> chart[j].counts],
                     [j \in kept |-> chart[j].bars],
                     [j \in kept |-> chart[j].texts],
                     chart[current].bars))))

correlation_analysis_out(d, ax) ==
    Produced("ok", correlation_matrix(d), <<>>, <<>>, ax)

outlire_detection_out(d, ax) ==
    With(SelectSeq(numeric_columns(d), LAMBDA c : Len(values(d[c])) > 0), LAMBDA boxed :
    With(patches("box", [i \in DOMAIN boxed |->
             << boxed[i], quantile(d[boxed[i]], 1, 4),
                quantile(d[boxed[i]], 2, 4), quantile(d[boxed[i]], 3, 4) >>]), LAMBDA boxes :
        Produced("ok", <<>>, boxes, <<>>, ax \o boxes)))

count_outliers_out(d, ax) ==
    With(outliers_frame(d), LAMBDA outliers :
    With([i \in DOMAIN outliers |-> outliers[i][2]], LAMBDA count_of :
    With(patches("bar", count_of), LAMBDA bars :
    With(annotate(ax \o bars, count_of), LAMBDA notes :
        Produced(notes.error,
                 [bounds   |-> [c \in Range(numeric_columns(d)) |->
                                  << lower_bound(d[c]), upper_bound(d[c]) >>],
                  outliers |-> outliers],
                 bars, notes.texts, ax \o bars)))))

\* lenient: whether pd.qcut accepts quantiles that are all equal, leaving one
\* edge and no bin (pandas 2), or fails on the first of no labels (pandas 1)
fraud_analysis_out(d, ax, lenient) ==
    IF \/ "FraudResult" \notin DOMAIN d
       \/ <<1>> \notin Range(d["FraudResult"])
       \/ "Amount" \notin DOMAIN d
    THEN Produced("KeyError", [binned |-> FALSE], <<>>, <<>>, ax)
    ELSE
    With(fraud_amounts(d), LAMBDA fraud :
    With(bin_edges(fraud), LAMBDA edges :
        IF Len(edges) < 2 /\ ~lenient
        THEN Produced("IndexError", [binned |-> FALSE, fraud |-> fraud], <<>>, <<>>, ax)
        ELSE
    With(bin_labels(edges), LAMBDA labels :
        IF Cardinality(Range(labels)) < Len(labels)
        THEN Produced("ValueError",
                      [binned |-> FALSE, fraud |-> fraud, bin_edges |-> edges,
                       bin_labels |-> labels],
                      <<>>, <<>>, ax)
        ELSE
    With(bin_counts(fraud, edges), LAMBDA counts :
    With(patches("bar", counts), LAMBDA bars :
    With(annotate(ax \o bars, counts), LAMBDA notes :
        Produced(notes.error,
                 [binned |-> TRUE, fraud |-> fraud, bin_edges |-> edges,
                  bin_labels |-> labels, bin_counts |-> counts],
                 bars, notes.texts, ax \o bars)))))))

\* what a call of op produces on the table d with ax the current axes; choice
\* is the outcome taken where the libraries leave one open
Out(op, d, ax, choice) ==
    CASE op = "basic_overview"           -> basic_overview_out(d, ax)
      [] op = "summary_statistics"       -> summary_statistics_out(d, ax)
      [] op = "missing_values"           -> missing_values_out(d, ax)
      [] op = "numerical_distribution"   -> numerical_distribution_out(d, ax, choice)
      [] op = "describe_skewness"        -> describe_skewness_out(d, ax)
      [] op = "categorical_distribution" -> categorical_distribution_out(d, ax)
      [] op = "correlation_analysis"     -> correlation_analysis_out(d, ax)
      [] op = "outlire_detection"        -> outlire_detection_out(d, ax)
      [] op = "count_outliers"           -> count_outliers_out(d, ax)
      [] op = "fraud_analysis"           -> fraud_analysis_out(d, ax, choice)

Operations ==
    {"basic_overview", "summary_statistics", "missing_values", "numerical_distribution",
     "describe_skewness", "categorical_distribution", "correlation_analysis",
     "outlire_detection", "count_outliers", "fraud_analysis"}

\* ------------------------------------------------------------ the datasets
\* a category value is written as its rank among the values of its column
AmountCells == {NaN, <<0>>, <<4>>}

RowIds == 1..NRows

base_amount == [i \in RowIds |-> IF i = 1 THEN <<4>> ELSE IF i = 3 THEN NaN ELSE <<0>>]

base_fraud == [i \in RowIds |-> IF i = 3 THEN <<0>> ELSE <<1>>]

\* a ChannelId column with k distinct channels
channels(k) == [i \in RowIds |-> << IF i < k THEN i ELSE k >>]

Table(amount, fraud, channel) ==
    [c \in Range(ColumnOrder) |->
        CASE c = "CurrencyCode"    -> [i \in RowIds |-> <<1>>]
          [] c = "CountryCode"     -> [i \in RowIds |-> <<256>>]
          [] c = "ProviderId"      -> [i \in RowIds |-> << 1 + (i % 2) >>]
          [] c = "ProductCategory" -> [i \in RowIds |-> << IF i < 3 THEN i ELSE 3 >>]
          [] c = "ChannelId"       -> channel
          [] c = "Amount"          -> amount
          [] c = "Value"           -> [i \in RowIds |-> << (i * i) % 5 >>]
          [] c = "PricingStrategy" -> [i \in RowIds |-> << IF i = 1 THEN 4 ELSE 2 >>]
          [] c = "FraudResult"     -> fraud]

Restrict(d, cols) == [c \in cols |-> d[c]]

\* tables that differ in the columns they have
ColumnSets ==
    {Range(ColumnOrder) \ {c} : c \in Range(columns_of_interest) \cup {"Amount", "FraudResult"}}
    \cup {Range(columns_of_interest) \cup {ColumnOrder[j] : j \in (10 - n)..9} : n \in 1..5}

\* an Amount column with n4 fours, then missing values, then zeros
amount_column(n4, nmissing) ==
    [i \in RowIds |-> IF i <= n4 THEN <<4>> ELSE IF i <= n4 + nmissing THEN NaN ELSE <<0>>]

\* a FraudResult column whose first k rows are fraudulent
fraud_column(k) == [i \in RowIds |-> IF i <= k THEN <<1>> ELSE <<0>>]

NarrowTables ==
    {Table(base_amount, base_fraud, channels(k)) : k \in 1..4}
    \cup {Restrict(Table(base_amount, base_fraud, channels(4)), cols) : cols \in ColumnSets}

WideTables ==
    NarrowTables
    \cup {Table(amount_column(n4, nm), fraud_column(NRows), channels(4)) :
            n4 \in 0..NRows, nm \in 0..NRows}
    \cup {Table(base_amount, fraud_column(k), channels(4)) : k \in 0..NRows}

\* ------------------------------------------------------------ the state
VARIABLES frames, df, self_data, gca, last, calls, changes, limit

vars == << frames, df, self_data, gca, last, calls, changes, limit >>

\* EDAAnalyzer.__init__ keeping a copy of the table (self.data = data.copy())
EDAAnalyzer_init_copy(data) == 2

\* EDAAnalyzer.__init__: self.data = data keeps the caller's object
EDAAnalyzer_init(data) == data

\* fraud_analysis sorting the table itself (sort_values(inplace=True))
data_after_inplace(op, d) ==
    IF op = "fraud_analysis" /\ "Amount" \in DOMAIN d
    THEN With(StableSort([i \in 1..nrows(d) |-> i],
                         LAMBDA i, j : ~isna(d["Amount"][i]) /\
                             (isna(d["Amount"][j]) \/ Val(d["Amount"][i]) < Val(d["Amount"][j]))),
              LAMBDA order : [c \in DOMAIN d |-> [k \in DOMAIN order |-> d[c][order[k]]]])
    ELSE d

\* no operation assigns to self.data or changes it in place
data_after(op, d) == d

Nothing == [op |-> "none", outcome |-> "none", result |-> <<>>, bars |-> <<>>, texts |-> <<>>]

InitWith(tables, budget) ==
    /\ \E t \in tables : frames = [ref \in 1..2 |-> t]
    /\ df = 1
    /\ self_data = EDAAnalyzer_init(df)
    /\ gca = <<>>
    /\ last = Nothing
    /\ calls = 0
    /\ changes = 0
    /\ limit = budget

Init == InitWith(WideTables, MaxCalls)

\* the end of a call of op that produced out: what it printed or drew is kept
\* in last, the current axes in gca
Return(op, out) ==
    /\ calls' = calls + 1
    /\ last' = [op |-> op, outcome |-> out.outcome, result |-> out.result,
                bars |-> out.bars, texts |-> out.texts]
    /\ gca' = out.ax
    /\ frames' = [frames EXCEPT ![self_data] = data_after(op, @)]
    /\ UNCHANGED << df, self_data, changes, limit >>

basic_overview ==
    /\ calls < limit
    /\ \E out \in {basic_overview_out(frames[self_data], gca)} : Return("basic_overview", out)

summary_statistics ==
    /\ calls < limit
    /\ \E out \in {summary_statistics_out(frames[self_data], gca)} : Return("summary_statistics", out)

missing_values ==
    /\ calls < limit
    /\ \E out \in {missing_values_out(frames[self_data], gca)} : Return("missing_values", out)

numerical_distribution ==
    /\ calls < limit
    /\ \E closed \in BOOLEAN :
          \E out \in {numerical_distribution_out(frames[self_data], gca, closed)} :
              Return("numerical_distribution", out)

describe_skewness ==
    /\ calls < limit
    /\ \E out \in {describe_skewness_out(frames[self_data], gca)} : Return("describe_skewness", out)

categorical_distribution ==
    /\ calls < limit
    /\ \E out \in {categorical_distribution_out(frames[self_data], gca)} : Return("categorical_distribution", out)

correlation_analysis ==
    /\ calls < limit
    /\ \E out \in {correlation_analysis_out(frames[self_data], gca)} : Return("correlation_analysis", out)

outlire_detection ==
    /\ calls < limit
    /\ \E out \in {outlire_detection_out(frames[self_data], gca)} : Return("outlire_detection", out)

count_outliers ==
    /\ calls < limit
    /\ \E out \in {count_outliers_out(frames[self_data], gca)} : Return("count_outliers", out)

fraud_analysis ==
    /\ calls < limit
    /\ \E lenient \in BOOLEAN :
          \E out \in {fraud_analysis_out(frames[self_data], gca, lenient)} :
              Return("fraud_analysis", out)

\* the owner of the dataset overwrites the Amount of its first row
ExternalChange ==
    /\ changes < MaxChanges
    /\ "Amount" \in DOMAIN frames[df]
    /\ \E v \in AmountCells :
          /\ frames[df]["Amount"][1] # v
          /\ frames' = [frames EXCEPT ![df]["Amount"][1] = v]
    /\ changes' = changes + 1
    /\ last' = Nothing
    /\ UNCHANGED << df, self_data, gca, calls, limit >>

Next ==
    \/ basic_overview
    \/ summary_statistics
    \/ missing_values
    \/ numerical_distribution
    \/ describe_skewness
    \/ categorical_distribution
    \/ correlation_analysis
    \/ outlire_detection
    \/ count_outliers
    \/ fraud_analysis
    \/ ExternalChange

Spec == Init /\ [][Next]_vars

\* a session of several calls on one of the tables of NarrowTables
InitSession == InitWith(NarrowTables, MaxCalls + 1)

SpecSession == InitSession /\ [][Next]_vars

\* ------------------------------------------------------------ the claims
\* the table the analyzer was built on, as its owner sees it
Table0 == frames[df]

\* the number of non-missing values of col below v, and at most v
Below(col, v) == Cardinality({i \in DOMAIN col : ~isna(col[i]) /\ Val(col[i]) < v})

AtMost(col, v) == Cardinality({i \in DOMAIN col : ~isna(col[i]) /\ Val(col[i]) <= v})

Count(col) == Cardinality({i \in DOMAIN col : ~isna(col[i])})

\* the k-th smallest non-missing value of col
Kth(col, k) ==
    CHOOSE v \in {Val(col[i]) : i \in {j \in DOMAIN col : ~isna(col[j])}} :
        Below(col, v) < k /\ k <= AtMost(col, v)

\* four times the p-th quartile of col by linear interpolation between the
\* two order statistics around position (n - 1) * p / 4
Quartile4(col, p) ==
    LET h == (Count(col) - 1) * p
    IN  IF h % 4 = 0 THEN 4 * Kth(col, h \div 4 + 1)
        ELSE 4 * Kth(col, h \div 4 + 1)
             + (h % 4) * (Kth(col, h \div 4 + 2) - Kth(col, h \div 4 + 1))

\* eight times Q1 - 1.5 * IQR and Q3 + 1.5 * IQR
Lower8(col) ==
    With(Quartile4(col, 1), LAMBDA q1 :
    With(Quartile4(col, 3), LAMBDA q3 : 2 * q1 - 3 * (q3 - q1)))

Upper8(col) ==
    With(Quartile4(col, 1), LAMBDA q1 :
    With(Quartile4(col, 3), LAMBDA q3 : 2 * q3 + 3 * (q3 - q1)))

StrictlyOutside(col) ==
    With(Lower8(col), LAMBDA lo :
    With(Upper8(col), LAMBDA hi :
        {i \in DOMAIN col : ~isna(col[i]) /\ (8 * Val(col[i]) < lo \/ 8 * Val(col[i]) > hi)}))

\* C1: after count_outliers, for every numeric column the bounds are
\* Q1 - 1.5*IQR and Q3 + 1.5*IQR (quartiles by linear interpolation) and the
\* count is the number of rows strictly outside them; rows equal to a bound
\* and rows with a missing value are not counted.
C1_OutlierCounts ==
    last.op = "count_outliers" =>
        /\ {row[1] : row \in Range(last.result.outliers)} = Range(numeric_columns(Table0))
        /\ \A c \in Range(numeric_columns(Table0)) :
              /\ Count(Table0[c]) > 0 =>
                    last.result.bounds[c] = << <<Lower8(Table0[c])>>, <<Upper8(Table0[c])>> >>
              /\ \A row \in Range(last.result.outliers) :
                    row[1] = c =>
                        row[2] = IF Count(Table0[c]) = 0 THEN 0
                                 ELSE Cardinality(StrictlyOutside(Table0[c]))

\* count_outliers has counted an outlier in one column, none in a constant
\* column (whose values equal both bounds), in a table with a missing amount
C1_Witness ==
    /\ last.op = "count_outliers"
    /\ \E row \in Range(last.result.outliers) : row[2] > 0
    /\ \E row \in Range(last.result.outliers) :
          row[2] = 0 /\ Cardinality(Range(Table0[row[1]])) = 1
    /\ "Amount" \in DOMAIN Table0 /\ NaN \in Range(Table0["Amount"])

Missing(col) == Cardinality({i \in DOMAIN col : col[i] = NaN})

\* C3: the missing-value report has a column iff some of its rows are missing,
\* and reports for it (missing_count / total_rows) * 100.
C3_MissingReport ==
    last.op = "missing_values" =>
        \A c \in DOMAIN Table0 :
            /\ c \in DOMAIN last.result <=> Missing(Table0[c]) > 0
            /\ c \in DOMAIN last.result =>
                  last.result[c][1] * nrows(Table0) = Missing(Table0[c]) * 100 * last.result[c][2]

\* the report lists Amount, with some but not all rows missing, and leaves
\* complete columns out
C3_Witness ==
    /\ last.op = "missing_values"
    /\ "Amount" \in DOMAIN last.result
    /\ last.result["Amount"][1] < 100 * last.result["Amount"][2]
    /\ "FraudResult" \in DOMAIN Table0 /\ "FraudResult" \notin DOMAIN last.result

\* C4: no call of an operation, failing or not, changes the dataset (its
\* columns, the order of its rows, its cells).
C4_DatasetUnchanged == [][calls' # calls => frames' = frames]_vars

\* fraud_analysis has failed (two bins with the same label) after sorting the
\* fraudulent amounts into an order that is not the order of the table
C4_Witness ==
    /\ calls > 0
    /\ last.op = "fraud_analysis"
    /\ last.outcome = "ValueError"
    /\ \E i \in DOMAIN last.result.fraud : last.result.fraud[i] # Table0["Amount"][i]

C2_FraudBins ==
    (last.op = "fraud_analysis" /\ last.result.binned) =>
        /\ Sum(last.result.bin_counts)
              = Cardinality({i \in RowIds : Table0["FraudResult"][i] = <<1>>})
        /\ \A i \in 1..(Len(last.result.bin_edges) - 1) :
              Val(last.result.bin_edges[i]) <= Val(last.result.bin_edges[i + 1])
        /\ \A i \in DOMAIN last.result.bin_labels :
              last.result.bin_labels[i][1] <= last.result.bin_labels[i][2]

\* C5: whatever was called before, a call prints and renders what the same
\* call renders when it is the first call on the same dataset.
C5_Independent ==
    last.op # "none" =>
        \E choice \in BOOLEAN :
            \E alone \in {Out(last.op, frames[self_data], <<>>, choice)} :
                /\ last.outcome = alone.outcome
                /\ last.result = alone.result
                /\ last.bars = alone.bars
                /\ last.texts = alone.texts

\* the number of rows of col with the category v
Occurrences(col, v) == Cardinality({i \in DOMAIN col : col[i] = <<v>>})

\* C7: on a dataset with the four columns of interest, categorical_distribution
\* leaves four charts, each with one bar per category of its column, the bars
\* in ascending order of count and each annotated with its own count.
C7_FourCharts ==
    (last.op = "categorical_distribution"
        /\ Range(columns_of_interest) \subseteq DOMAIN Table0) =>
        /\ last.outcome = "ok"
        /\ DOMAIN last.bars = 1..Len(columns_of_interest)
        /\ \A j \in DOMAIN last.bars :
              LET col == Table0[columns_of_interest[j]] IN
              /\ Len(last.bars[j]) = Cardinality(Range(col) \ {NaN})
              /\ \A v \in {Val(c) : c \in Range(col) \ {NaN}} :
                    Cardinality({i \in DOMAIN last.bars[j] :
                                    last.bars[j][i].h = Occurrences(col, v)})
                    = Cardinality({w \in {Val(c) : c \in Range(col) \ {NaN}} :
                                    Occurrences(col, w) = Occurrences(col, v)})
              /\ \A i \in 1..(Len(last.bars[j]) - 1) :
                    last.bars[j][i].h <= last.bars[j][i + 1].h
              /\ DOMAIN last.texts[j] = DOMAIN last.bars[j]
              /\ \A i \in DOMAIN last.bars[j] :
                    last.texts[j][i] = [x |-> last.bars[j][i].x, y |-> last.bars[j][i].h,
                                        s |-> last.bars[j][i].h]

\* C8: describe_skewness draws the skewness values in ascending order and
\* writes on the i-th bar the rounded skewness of the i-th column in that
\* order; on the same input every call gives the same values in the same order.
C8_SkewnessBars ==
    last.op = "describe_skewness" =>
        /\ last.outcome = "ok"
        /\ last.result = skewness_data(Table0)
        /\ \A i \in 1..(Len(last.bars) - 1) : Val(last.bars[i].h) <= Val(last.bars[i + 1].h)
        /\ \A i \in DOMAIN last.bars :
              /\ last.bars[i].h = last.result[i][2]
              /\ i \in DOMAIN last.texts
              /\ last.texts[i] = [x |-> last.bars[i].x, y |-> last.bars[i].h,
                                  s |-> last.result[i][2]]

\* the columns an operation uses by name
NamedColumns(op) ==
    IF op = "fraud_analysis" THEN {"FraudResult", "Amount"}
    ELSE IF op = "categorical_distribution" THEN Range(columns_of_interest)
    ELSE {}

\* C9: a call of an operation that uses a column by name fails with an
\* uncaught error when the column is absent, leaves the dataset unchanged, and
\* does not change what any operation called afterwards gives.
C9_FailureIsolated ==
    [][(calls' # calls /\ ~(NamedColumns(last'.op) \subseteq DOMAIN frames[self_data])) =>
          /\ last'.outcome = "KeyError"
          /\ frames' = frames
          /\ \A op \in Operations : \A choice \in BOOLEAN :
                \E after \in {Out(op, frames'[self_data], gca', choice)} :
                    \E without \in {Out(op, frames[self_data], gca, choice)} :
                        /\ after.outcome = without.outcome
                        /\ after.result = without.result
                        /\ after.bars = without.bars
                        /\ after.texts = without.texts]_vars

\* C10: with n >= 1 numeric columns numerical_distribution lays out
\* ceil(sqrt(n)) columns and ceil(n / columns) rows, at least n cells, draws
\* one subplot per numeric column in the first n cells in column order, and
\* removes the other cells, so that n subplots remain.
C10_Grid ==
    LET n == Len(numeric_columns(Table0)) IN
    (last.op = "numerical_distribution" /\ n >= 1) =>
        /\ last.outcome = "ok"
        /\ last.result.num_cols * last.result.num_cols >= n
        /\ (last.result.num_cols - 1) * (last.result.num_cols - 1) < n
        /\ last.result.num_rows * last.result.num_cols >= n
        /\ (last.result.num_rows - 1) * last.result.num_cols < n
        /\ last.result.kept = 1..n
        /\ DOMAIN last.bars = 1..n
        /\ \A i \in 1..n : last.bars[i].column = numeric_columns(Table0)[i]

====
